---- MODULE Spec2Model ----
(***************************************************************************)
(* A model of two modules of Houdini-Toolbox:                              *)
(*   python/ht/nodes/colors/manager.py   (ColorManager)                    *)
(*   python/ht/sohohooks/aovs/aov.py     (AOV, AOVGroup)                   *)
(*                                                                         *)
(* Python values are modelled as follows.                                  *)
(*   - a dict is a function whose DOMAIN is the set of its keys;           *)
(*   - a list or tuple is a sequence;                                      *)
(*   - a str is a sequence of atoms (an atom is a TLA+ string standing     *)
(*     for one indivisible piece of text), so that format(), join() and    *)
(*     split() are computed and not assumed;                               *)
(*   - the iteration order of a Python 2 dict is not specified: it is the  *)
(*     order of the keys in hashOrder for the dicts of the rule files, and *)
(*     an order drawn with the call for the category_map of an AOV.        *)
(***************************************************************************)
EXTENDS Integers, Sequences, FiniteSets, TLC

VARIABLES
    \* ---- the Python process
    hashOrder,     \* the order in which the process iterates dict keys
    \* ---- ColorManager
    constants,     \* self._constants : name -> ColorConstant
    names,         \* self._names     : category -> (entry name -> entry)
    nodes,         \* self._nodes
    tools,         \* self._tools
    loaded,        \* the files the last _buildMappings() read, and how it ended
    lastCall,      \* the last colorNode / colorNodeByName call and its effect
    \* ---- aov.py
    defaultComponents, \* the list object _DEFAULT_AOV_DATA["components"]
    aov,           \* self._data of the AOV at hand
    aovCall,       \* the last call on it: the method, its input, what it raised
    \* ---- AOVGroup
    pool,          \* the AOV objects a group may refer to: id -> self._data
    group,         \* the fields of the AOVGroup at hand
    groupLog,      \* the calls made on it: the members added since the last
                   \* clear(), and whether clear() was called
    \* ---- AOV.writeToIfd
    render,        \* the writeToIfd call at hand: what the host answered, the
                   \* writeDataToIfd calls it makes and how many it has made
    ifd            \* what the last writeDataToIfd call sent to IFDapi, and
                   \* what was sent and reported since writeToIfd began

colorVars == <<hashOrder, constants, names, nodes, tools, loaded, lastCall>>

aovVars == <<defaultComponents, aov, aovCall>>

groupVars == <<pool, group, groupLog>>

expandVars == <<render, ifd>>

vars == <<colorVars, aovVars, groupVars, expandVars>>

\* What the methods of one class leave alone: the objects of the others.
notColor == <<aovVars, groupVars, expandVars>>
notAOV == <<colorVars, groupVars, expandVars>>
notGroup == <<colorVars, aovVars, expandVars>>
notExpand == <<colorVars, aovVars, groupVars>>

\* ------------------------------------------------------------------------
\* Python dict helpers
\* ------------------------------------------------------------------------

EmptyDict == [k \in {} |-> 0]

Put(d, k, v) == [x \in (DOMAIN d) \cup {k} |-> IF x = k THEN v ELSE d[x]]

\* dict.setdefault(k, {}) as far as the dict is concerned
SetDefault(d, k) == IF k \in DOMAIN d THEN d ELSE Put(d, k, EmptyDict)

\* The keys of d in the order the process iterates them.
IterKeys(d, order) == SelectSeq(order, LAMBDA k : k \in DOMAIN d)

RECURSIVE Reversed(_)
Reversed(s) == IF s = <<>> THEN <<>> ELSE Append(Reversed(Tail(s)), Head(s))

Range(s) == {s[i] : i \in DOMAIN s}

\* ------------------------------------------------------------------------
\* manager.py: building colors, constants and entries
\* ------------------------------------------------------------------------

\* The members of hou.colorType.
ColorTypes == {"RGB", "HSL", "HSV", "LAB", "XYZ"}

\* A JSON "color" value: a number, or a list of three numbers.
Scalar(n) == [list |-> FALSE, v |-> <<n>>]
Triple(a, b, c) == [list |-> TRUE, v |-> <<a, b, c>>]

\* _buildColor(data): the hou.Color built from {"type": ..., "color": ...},
\* or InvalidColorTypeError.  A hou.Color is the color space it was set in
\* and the three components it was set to.
BuildColor(data) ==
    IF data.type \notin ColorTypes
    THEN [err |-> "InvalidColorTypeError", color |-> <<>>]
    ELSE IF data.type = "RGB" /\ ~data.color.list
    THEN [err |-> "none",
          color |-> [space |-> "RGB",
                     value |-> <<data.color.v[1], data.color.v[1], data.color.v[1]>>]]
    ELSE [err |-> "none", color |-> [space |-> data.type, value |-> data.color.v]]

\* The classes of ht.nodes.colors.colors, as the manager constructs them.
ColorConstant(name, color, type, path) ==
    [name |-> name, color |-> color, color_type |-> type, path |-> path]

ColorEntry(name, color, type, path) ==
    [class |-> "ColorEntry", name |-> name, color |-> color,
     color_type |-> type, path |-> path]

ConstantEntry(name, constant_name, path) ==
    [class |-> "ConstantEntry", name |-> name,
     constant_name |-> constant_name, path |-> path]

\* The four tables of a manager plus the exception that ended the build, if
\* any ("none": no exception).
Tables(c, n, d, t, e) ==
    [constants |-> c, names |-> n, nodes |-> d, tools |-> t, err |-> e]

EmptyTables == Tables(EmptyDict, EmptyDict, EmptyDict, EmptyDict, "none")

\* The inner loop body keeping a constant already stored under the name.
StoreConstantKeepFirst(st, name, entry, path) ==
    LET built == BuildColor(entry) IN
    IF built.err # "none"
    THEN [st EXCEPT !.err = built.err]
    ELSE IF name \in DOMAIN st.constants
    THEN st
    ELSE [st EXCEPT !.constants =
              Put(@, name, ColorConstant(name, built.color, entry.type, path))]

\* _buildConstantsFromData, the body of the inner loop (lines 59-68).
StoreConstant(st, name, entry, path) ==
    LET built == BuildColor(entry) IN
    IF built.err # "none"
    THEN [st EXCEPT !.err = built.err]
    ELSE [st EXCEPT !.constants =
              Put(@, name, ColorConstant(name, built.color, entry.type, path))]

\* _buildConstantsFromData, the loop over one file's constants (line 58).
RECURSIVE StoreConstants(_, _, _, _)
StoreConstants(st, consts, keys, path) ==
    IF keys = <<>> \/ st.err # "none" THEN st
    ELSE StoreConstants(StoreConstant(st, Head(keys), consts[Head(keys)], path),
                        consts, Tail(keys), path)

\* _buildConstantsFromData(all_data)
RECURSIVE BuildConstantsFromData(_, _, _)
BuildConstantsFromData(st, all_data, order) ==
    IF all_data = <<>> \/ st.err # "none" THEN st
    ELSE LET data == Head(all_data)
             next == IF "constants" \in DOMAIN data
                     THEN StoreConstants(st, data["constants"],
                                         IterKeys(data["constants"], order),
                                         data["path"])
                     ELSE st
         IN  BuildConstantsFromData(next, Tail(all_data), order)

\* The loop body storing an entry of type "constant" without looking the
\* constant up.
StoreEntryUnchecked(st, assign_type, category_name, entry, path) ==
    IF entry.type = "constant"
    THEN [st EXCEPT ![assign_type][category_name] =
              Put(@, entry.name, ConstantEntry(entry.name, entry.constant, path))]
    ELSE LET built == BuildColor(entry) IN
         IF built.err # "none"
         THEN [st EXCEPT !.err = built.err]
         ELSE [st EXCEPT ![assign_type][category_name] =
                   Put(@, entry.name,
                       ColorEntry(entry.name, built.color, entry.type, path))]

\* _buildEntriesFromData, the body of the loop over entries (lines 93-126):
\* the entry stored under its name in the category's dict.
StoreEntry(st, assign_type, category_name, entry, path) ==
    IF entry.type = "constant"
    THEN IF entry.constant \notin DOMAIN st.constants
         THEN [st EXCEPT !.err = "ConstantDoesNotExistError"]
         ELSE [st EXCEPT ![assign_type][category_name] =
                   Put(@, entry.name,
                       ConstantEntry(entry.name, entry.constant, path))]
    ELSE LET built == BuildColor(entry) IN
         IF built.err # "none"
         THEN [st EXCEPT !.err = built.err]
         ELSE [st EXCEPT ![assign_type][category_name] =
                   Put(@, entry.name,
                       ColorEntry(entry.name, built.color, entry.type, path))]

\* the loop over the entries of one category (line 93)
RECURSIVE StoreEntries(_, _, _, _, _)
StoreEntries(st, assign_type, category_name, entries, path) ==
    IF entries = <<>> \/ st.err # "none" THEN st
    ELSE StoreEntries(
             StoreEntry(st, assign_type, category_name, Head(entries), path),
             assign_type, category_name, Tail(entries), path)

\* the loop over the categories of one table of one file (lines 84-89)
RECURSIVE StoreCategories(_, _, _, _, _)
StoreCategories(st, assign_type, cats, keys, path) ==
    IF keys = <<>> \/ st.err # "none" THEN st
    ELSE LET category_name == Head(keys)
             withList == [st EXCEPT ![assign_type] = SetDefault(@, category_name)]
         IN  StoreCategories(
                 StoreEntries(withList, assign_type, category_name,
                              cats[category_name], path),
                 assign_type, cats, Tail(keys), path)

\* the loop over ("names", "nodes", "tools") for one file (lines 75-81)
RECURSIVE StoreAssignTypes(_, _, _, _)
StoreAssignTypes(st, data, assign_types, order) ==
    IF assign_types = <<>> \/ st.err # "none" THEN st
    ELSE LET assign_type == Head(assign_types)
             next == IF assign_type \notin DOMAIN data
                     THEN st
                     ELSE StoreCategories(st, assign_type, data[assign_type],
                                          IterKeys(data[assign_type], order),
                                          data["path"])
         IN  StoreAssignTypes(next, data, Tail(assign_types), order)

\* _buildEntriesFromData(all_data)
RECURSIVE BuildEntriesFromData(_, _, _)
BuildEntriesFromData(st, all_data, order) ==
    IF all_data = <<>> \/ st.err # "none" THEN st
    ELSE BuildEntriesFromData(
             StoreAssignTypes(st, Head(all_data), <<"names", "nodes", "tools">>, order),
             Tail(all_data), order)

\* json.load of one file, with data["path"] = path (lines 137-144)
ReadFile(file) == Put(file.json, "path", file.path)

\* _buildMappings() reading the files in discovery order, not in reverse.
BuildMappingsForward(st, files, order) ==
    LET all_data == [i \in DOMAIN files |-> ReadFile(files[i])]
    IN  BuildEntriesFromData(BuildConstantsFromData(st, all_data, order),
                             all_data, order)

\* _buildMappings(): files is what _findFiles() returned; st is the tables
\* the manager holds when it is called.
BuildMappings(st, files, order) ==
    LET rev == Reversed(files)
        all_data == [i \in DOMAIN rev |-> ReadFile(rev[i])]
    IN  BuildEntriesFromData(BuildConstantsFromData(st, all_data, order),
                             all_data, order)

\* ------------------------------------------------------------------------
\* manager.py: lookups
\* ------------------------------------------------------------------------

\* hou.patternMatch(pattern, string) for the patterns of the rule files
\* modelled here: "*" matches every string, any other pattern only itself.
PatternMatch(pattern, string) == pattern = "*" \/ pattern = string

NoColor == [space |-> "none", value |-> <<>>]

\* What a lookup returns: a color, None, or the KeyError of _resolveEntry.
Found(color) == [kind |-> "color", color |-> color]
None == [kind |-> "None", color |-> NoColor]
KeyError == [kind |-> "KeyError", color |-> NoColor]

\* _resolveEntry(entry)
ResolveEntry(st, entry) ==
    IF entry.class = "ColorEntry"
    THEN Found(entry.color)
    ELSE IF entry.constant_name \in DOMAIN st.constants
         THEN Found(st.constants[entry.constant_name].color)
         ELSE KeyError

\* The entries of table[category_name] whose name matches string.
Matching(table, category_name, string) ==
    {table[category_name][k] : k \in
        {k \in DOMAIN table[category_name] :
            PatternMatch(table[category_name][k].name, string)}}

\* The loop "for category_name in categories: if category_name in table:
\* for color_entry in table[category_name].itervalues(): if patternMatch:
\* return" of _getTypeColor and _getNameEntry.  itervalues() has no specified
\* order, so each matching entry of the first category that has one may be
\* the entry returned: the result is the set of the possible returns.
RECURSIVE FirstMatch(_, _, _, _)
FirstMatch(st, table, categories, string) ==
    IF categories = <<>> THEN {None}
    ELSE LET category_name == Head(categories) IN
         IF category_name \in DOMAIN table
            /\ Matching(table, category_name, string) # {}
         THEN {ResolveEntry(st, e) : e \in Matching(table, category_name, string)}
         ELSE FirstMatch(st, table, Tail(categories), string)

\* _getTypeColor(node_type)
GetTypeColor(st, node) ==
    FirstMatch(st, st.nodes, <<node.category, "all">>, node.type_name)

\* _getNameEntry(node)
GetNameEntry(st, node) ==
    FirstMatch(st, st.names, <<node.category, "all">>, node.name)

\* _getToolColor, the loop over the menu locations within one category
RECURSIVE FirstLocation(_, _, _)
FirstLocation(st, category_name, menu_locations) ==
    IF menu_locations = <<>> THEN {None}
    ELSE IF Matching(st.tools, category_name, Head(menu_locations)) # {}
         THEN {ResolveEntry(st, e) :
                  e \in Matching(st.tools, category_name, Head(menu_locations))}
         ELSE FirstLocation(st, category_name, Tail(menu_locations))

\* _getToolColor, the loop over the categories
RECURSIVE ToolCategories(_, _, _)
ToolCategories(st, categories, menu_locations) ==
    IF categories = <<>> THEN {None}
    ELSE IF Head(categories) \in DOMAIN st.tools
            /\ FirstLocation(st, Head(categories), menu_locations) # {None}
         THEN FirstLocation(st, Head(categories), menu_locations)
         ELSE ToolCategories(st, Tail(categories), menu_locations)

\* _getToolColor(node_type); node.menu_locations is what
\* _getToolMenuLocations(node_type) returns.
GetToolColor(st, node) ==
    ToolCategories(st, <<node.category, "all">>, node.menu_locations)

\* _getManagerGeneratorColor, the loop over the categories
RECURSIVE ManagerGeneratorCategories(_, _, _)
ManagerGeneratorCategories(st, categories, node) ==
    IF categories = <<>> THEN None
    ELSE LET category_name == Head(categories)
             rest == ManagerGeneratorCategories(st, Tail(categories), node)
         IN  IF category_name \notin DOMAIN st.nodes THEN rest
             ELSE LET category_entries == st.nodes[category_name] IN
                  IF node.isManager
                  THEN IF "manager" \in DOMAIN category_entries
                       THEN ResolveEntry(st, category_entries["manager"])
                       ELSE rest
                  ELSE IF node.isGenerator
                       THEN IF "generator" \in DOMAIN category_entries
                            THEN ResolveEntry(st, category_entries["generator"])
                            ELSE rest
                       ELSE rest

\* _getManagerGeneratorColor(node_type)
GetManagerGeneratorColor(st, node) ==
    ManagerGeneratorCategories(st, <<node.category, "all">>, node)

\* What a call did to the node: the setColor calls, in order, and the
\* exception it raised ("none": it returned).
Effect(result) ==
    [setColor |-> IF result.kind = "color" THEN <<result.color>> ELSE <<>>,
     err |-> IF result.kind = "KeyError" THEN "KeyError" ELSE "none"]

\* colorNode(node) trying the tool menu locations before the type name.
ColorNodeEffectsToolFirst(st, node) ==
    LET byType(color) ==
            IF color = None THEN GetTypeColor(st, node) ELSE {color}
        byManagerGenerator(color) ==
            IF color = None /\ (node.isManager \/ node.isGenerator)
            THEN {GetManagerGeneratorColor(st, node)}
            ELSE {color}
        afterType == UNION {byType(c) : c \in GetToolColor(st, node)}
    IN  {Effect(c) : c \in UNION {byManagerGenerator(c) : c \in afterType}}

\* colorNode(node), lines 286-302: the possible effects.
ColorNodeEffects(st, node) ==
    LET byTool(color) ==
            IF color = None THEN GetToolColor(st, node) ELSE {color}
        byManagerGenerator(color) ==
            IF color = None /\ (node.isManager \/ node.isGenerator)
            THEN {GetManagerGeneratorColor(st, node)}
            ELSE {color}
        afterTool == UNION {byTool(c) : c \in GetTypeColor(st, node)}
    IN  {Effect(c) : c \in UNION {byManagerGenerator(c) : c \in afterTool}}

\* colorNodeByName(node), lines 306-311: the possible effects.
ColorNodeByNameEffects(st, node) ==
    {Effect(c) : c \in GetNameEntry(st, node)}

\* ------------------------------------------------------------------------
\* The rule files and nodes the manager is run on
\* ------------------------------------------------------------------------

\* At most this many rule files are discovered at a time.
MaxFiles == 2

\* Entries of a rule file, as written in its JSON.
Lit(name, type, color) == [name |-> name, type |-> type, color |-> color]
Ref(name, constant) == [name |-> name, type |-> "constant", constant |-> constant]

Dict1(k, v) == [x \in {k} |-> v]
Dict2(k1, v1, k2, v2) == [x \in {k1, k2} |-> IF x = k1 THEN v1 ELSE v2]

\* constants and a reference to one; a tool rule
FileA ==
    [path |-> "a.json",
     json |-> [constants |-> Dict1("fg", Lit("fg", "RGB", Scalar(1))),
               nodes |-> Dict1("Sop", <<Ref("geo", "fg")>>),
               tools |-> Dict1("all", <<Lit("menu", "HSV", Triple(2, 2, 2))>>)]]

\* the same constant and the same node entry, defined differently; manager
\* and generator entries; a name rule
FileB ==
    [path |-> "b.json",
     json |-> [constants |-> Dict2("fg", Lit("fg", "RGB", Triple(3, 3, 3)),
                                   "bg", Lit("bg", "HSV", Triple(1, 2, 3))),
               nodes |-> Dict2("Sop", <<Lit("geo", "RGB", Scalar(2))>>,
                               "all", <<Ref("manager", "bg"),
                                        Lit("generator", "LAB", Triple(3, 2, 1))>>),
               names |-> Dict1("all", <<Lit("*", "RGB", Scalar(3))>>)]]

\* no constants of its own, references to a constant of other files, one key
\* twice in one list
FileC ==
    [path |-> "c.json",
     json |-> [nodes |-> Dict1("all", <<Ref("generator", "fg")>>),
               tools |-> Dict1("Sop", <<Ref("menu", "fg"),
                                        Lit("menu", "XYZ", Triple(1, 1, 1))>>),
               names |-> Dict1("Sop", <<Ref("light1", "fg")>>)]]

\* an entry whose type is no color type
FileD ==
    [path |-> "d.json",
     json |-> [nodes |-> Dict2("Sop", <<Lit("*", "RGB", Scalar(1))>>,
                               "all", <<Lit("manager", "CMYK", Scalar(1))>>)]]

\* a constant whose type is no color type
FileE ==
    [path |-> "e.json",
     json |-> [constants |-> Dict2("fg", Lit("fg", "XYZ", Triple(2, 1, 2)),
                                   "bg", Lit("bg", "CMYK", Scalar(1)))]]

\* catch-all rules in the type's category and in "all"
FileF ==
    [path |-> "f.json",
     json |-> [constants |-> Dict1("bg", Lit("bg", "HSL", Triple(1, 1, 2))),
               nodes |-> Dict2("Sop", <<Lit("*", "LAB", Triple(2, 2, 1)),
                                        Lit("geo", "HSL", Triple(3, 1, 1))>>,
                               "all", <<Ref("generator", "bg")>>),
               tools |-> Dict2("Sop", <<Lit("menu2", "RGB", Scalar(2))>>,
                               "all", <<Ref("*", "bg")>>)]]

RuleFiles == {FileA, FileB, FileC, FileD, FileE, FileF}

\* What _findFiles() may return: up to MaxFiles different files, in any order.
FileLists ==
    {fs \in UNION {[1..n -> RuleFiles] : n \in 0..MaxFiles} :
        \A i, j \in DOMAIN fs : i # j => fs[i].path # fs[j].path}

\* The orders in which the process may iterate the keys of a dict.
ConstantNames == {"fg", "bg"}
CategoryNames == {"Sop", "all"}
Orderings(S) ==
    {o \in [1..Cardinality(S) -> S] : \A i, j \in DOMAIN o : i # j => o[i] # o[j]}
\* A build iterates the constants of a file and the categories of a table in
\* different loops, and an exception ends it in one of them, so what a build
\* leaves depends on one of the two orders at most: the process is run with
\* each order of the constant names and with each order of the categories.
HashOrders ==
    {a \o b : <<a, b>> \in
        {<<a, b>> \in Orderings(ConstantNames) \X Orderings(CategoryNames) :
            (a[1] = "fg") = (b[1] = "Sop")}}

\* A node as the manager sees it: node.type().category().name(),
\* node.type().nameComponents()[2], isManager(), isGenerator(), the tool menu
\* locations of its type, node.name().
Node(category, type_name, isManager, isGenerator, menu_locations, name) ==
    [category |-> category, type_name |-> type_name, isManager |-> isManager,
     isGenerator |-> isGenerator, menu_locations |-> menu_locations,
     name |-> name]

Nodes ==
    {Node("Sop", "geo", FALSE, FALSE, <<"menu">>, "light1"),
     Node("Sop", "box", FALSE, TRUE, <<"menu2", "menu">>, "box1"),
     Node("Sop", "null", TRUE, TRUE, <<>>, "null1"),
     Node("Object", "subnet", TRUE, FALSE, <<>>, "subnet1"),
     Node("Object", "geo", FALSE, TRUE, <<"menu">>, "geo1"),
     Node("Object", "cam", FALSE, FALSE, <<>>, "cam1")}

\* ------------------------------------------------------------------------
\* ColorManager: state and operations
\* ------------------------------------------------------------------------

\* The tables the manager holds.
Held == Tables(constants, names, nodes, tools, "none")

NoCall == [op |-> "none", node |-> <<>>, setColor |-> <<>>, err |-> "none"]

\* Whether file defines the constant, or the entry key under the category
\* of the table.
DefinesConstant(file, name) ==
    "constants" \in DOMAIN file.json /\ name \in DOMAIN file.json["constants"]

EntryList(file, assign_type, category_name) ==
    IF assign_type \in DOMAIN file.json
       /\ category_name \in DOMAIN file.json[assign_type]
    THEN file.json[assign_type][category_name]
    ELSE <<>>

DefinesEntry(file, assign_type, category_name, key) ==
    \E i \in DOMAIN EntryList(file, assign_type, category_name) :
        EntryList(file, assign_type, category_name)[i].name = key

\* Whether the tables st hold a constant or an entry that none of files
\* defines.
HoldsStale(st, files) ==
    \/ \E name \in DOMAIN st.constants :
          \A i \in DOMAIN files : ~DefinesConstant(files[i], name)
    \/ \E assign_type \in {"names", "nodes", "tools"} :
       \E category_name \in DOMAIN st[assign_type] :
       \E key \in DOMAIN st[assign_type][category_name] :
          \A i \in DOMAIN files :
              ~DefinesEntry(files[i], assign_type, category_name, key)

\* The assignments of a build that left tables st.  loaded records the call:
\* the method, the files it read, the exception that ended it, and whether
\* the manager held, when it was called, something those files do not define.
Holds(st, op, files, stale) ==
    /\ constants' = st.constants
    /\ names' = st.names
    /\ nodes' = st.nodes
    /\ tools' = st.tools
    /\ loaded' = [op |-> op, files |-> files, err |-> st.err, stale |-> stale]

\* reload() clearing three of the tables only.
ClearedButNodes(st) == Tables(EmptyDict, EmptyDict, st.nodes, EmptyDict, "none")

\* The tables reload() builds on (lines 315-318): each of the four cleared.
Cleared(st) == EmptyTables

\* reload(): clear the tables, build the mappings from the files found now.
\* It is a method of a manager, so __init__ must have returned.
Reload(files) ==
    /\ loaded.op = "reload" \/ loaded.err = "none"
    /\ Holds(BuildMappings(Cleared(Held), files, hashOrder), "reload", files,
             HoldsStale(Held, files))
    /\ lastCall' = NoCall
    /\ UNCHANGED hashOrder
    /\ UNCHANGED notColor

\* colorNode(node)
ColorNode(node) ==
    /\ loaded.op = "reload" \/ loaded.err = "none"
    /\ \E effect \in ColorNodeEffects(Held, node) :
          lastCall' = [op |-> "colorNode", node |-> node,
                       setColor |-> effect.setColor, err |-> effect.err]
    /\ UNCHANGED <<hashOrder, constants, names, nodes, tools, loaded>>
    /\ UNCHANGED notColor

\* colorNodeByName(node)
ColorNodeByName(node) ==
    /\ loaded.op = "reload" \/ loaded.err = "none"
    /\ \E effect \in ColorNodeByNameEffects(Held, node) :
          lastCall' = [op |-> "colorNodeByName", node |-> node,
                       setColor |-> effect.setColor, err |-> effect.err]
    /\ UNCHANGED <<hashOrder, constants, names, nodes, tools, loaded>>
    /\ UNCHANGED notColor

\* The manager after ColorManager() (lines 32-39): the four tables start
\* empty and the mappings are built from the files found.
ColorInit ==
    /\ hashOrder \in HashOrders
    /\ \E files \in FileLists :
          LET st == BuildMappings(EmptyTables, files, hashOrder) IN
          /\ constants = st.constants
          /\ names = st.names
          /\ nodes = st.nodes
          /\ tools = st.tools
          /\ loaded = [op |-> "__init__", files |-> files, err |-> st.err,
                       stale |-> FALSE]
    /\ lastCall = NoCall

ColorNext ==
    \/ \E files \in FileLists : Reload(files)
    \/ \E node \in Nodes : ColorNode(node)
    \/ \E node \in Nodes : ColorNodeByName(node)


\* ------------------------------------------------------------------------
\* Claims about ColorManager
\* ------------------------------------------------------------------------

AssignTypes == {"names", "nodes", "tools"}

\* Every entry name a rule file uses.
EntryKeys ==
    UNION {{EntryList(f, t, c)[i].name : i \in DOMAIN EntryList(f, t, c)} :
              <<f, t, c>> \in RuleFiles \X AssignTypes \X CategoryNames}

\* The definition file gives of the key: the last entry of its list with
\* that name.
EntryOf(file, assign_type, category_name, key) ==
    LET list == EntryList(file, assign_type, category_name)
        last == CHOOSE i \in DOMAIN list :
                    /\ list[i].name = key
                    /\ \A j \in DOMAIN list : j > i => list[j].name # key
    IN  list[last]

\* The object the manager stores for a JSON entry read from path.
Stored(entry, path) ==
    IF entry.type = "constant"
    THEN ConstantEntry(entry.name, entry.constant, path)
    ELSE ColorEntry(entry.name, BuildColor(entry).color, entry.type, path)

\* The color a JSON entry stands for, given the constants held.
ColorOf(entry) ==
    IF entry.type = "constant"
    THEN constants[entry.constant].color
    ELSE BuildColor(entry).color

\* files[i] is the first of files to define the constant / the entry key, and
\* a file discovered after it defines it too.
ConstantCollides(files, i, name) ==
    /\ DefinesConstant(files[i], name)
    /\ \A h \in DOMAIN files : h < i => ~DefinesConstant(files[h], name)
    /\ \E j \in DOMAIN files : j > i /\ DefinesConstant(files[j], name)

EntryCollides(files, i, t, c, key) ==
    /\ DefinesEntry(files[i], t, c, key)
    /\ \A h \in DOMAIN files : h < i => ~DefinesEntry(files[h], t, c, key)
    /\ \E j \in DOMAIN files : j > i /\ DefinesEntry(files[j], t, c, key)

\* The category in which a lookup of string in table finds its match, and the
\* keys matching there ({} when nothing matches).
MatchCategory(table, node, string) ==
    IF node.category \in DOMAIN table
       /\ Matching(table, node.category, string) # {}
    THEN node.category
    ELSE "all"

MatchKeys(table, node, string) ==
    LET c == MatchCategory(table, node, string) IN
    IF c \in DOMAIN table
    THEN {k \in DOMAIN table[c] : PatternMatch(table[c][k].name, string)}
    ELSE {}

\* The <<category, key>> pairs of the tools table that match one of the menu
\* locations of the node, in its category or in "all".
ToolMatches(node) ==
    {ck \in {node.category, "all"} \X EntryKeys :
        /\ ck[1] \in DOMAIN tools
        /\ ck[2] \in DOMAIN tools[ck[1]]
        /\ \E i \in DOMAIN node.menu_locations :
               PatternMatch(tools[ck[1]][ck[2]].name, node.menu_locations[i])}

\* The last call looked the node up and the entry key of category c of table
\* t is the only entry that matched: by the type name or, when no type name
\* matched, by a menu location in colorNode; by the node name in
\* colorNodeByName.
SoleMatch(t, c, key) ==
    \/ /\ lastCall.op = "colorNode"
       /\ t = "nodes"
       /\ c = MatchCategory(nodes, lastCall.node, lastCall.node.type_name)
       /\ MatchKeys(nodes, lastCall.node, lastCall.node.type_name) = {key}
    \/ /\ lastCall.op = "colorNode"
       /\ t = "tools"
       /\ MatchKeys(nodes, lastCall.node, lastCall.node.type_name) = {}
       /\ ToolMatches(lastCall.node) = {<<c, key>>}
    \/ /\ lastCall.op = "colorNodeByName"
       /\ t = "names"
       /\ c = MatchCategory(names, lastCall.node, lastCall.node.name)
       /\ MatchKeys(names, lastCall.node, lastCall.node.name) = {key}

\* C1: when two discovered files define the same constant name, or the same
\* entry key under the same category of the same table, the tables after a
\* load that succeeded hold the definition of the file discovered first; and
\* a node matched only by such a key (by its type name or, failing that, by
\* its menu locations in colorNode; by its name in colorNodeByName) is given
\* the color of that file's definition.
C1_FirstDiscoveredWins ==
    loaded.err = "none" =>
        /\ \A i \in DOMAIN loaded.files :
               LET R1 == loaded.files[i] IN
               /\ \A name \in ConstantNames :
                      ConstantCollides(loaded.files, i, name) =>
                          /\ name \in DOMAIN constants
                          /\ constants[name] =
                                 ColorConstant(
                                     name,
                                     BuildColor(R1.json["constants"][name]).color,
                                     R1.json["constants"][name].type,
                                     R1.path)
               /\ \A t \in AssignTypes, c \in CategoryNames, key \in EntryKeys :
                      EntryCollides(loaded.files, i, t, c, key) =>
                          /\ c \in DOMAIN Held[t]
                          /\ key \in DOMAIN Held[t][c]
                          /\ Held[t][c][key] = Stored(EntryOf(R1, t, c, key), R1.path)
                          /\ SoleMatch(t, c, key) =>
                                 lastCall.setColor =
                                     <<ColorOf(EntryOf(R1, t, c, key))>>

\* C1's case: two files define the constant fg and the entry nodes/Sop/geo
\* differently, and a node matched only by geo was colored with the color of
\* the file discovered first.
C1_Witness ==
    /\ loaded.err = "none"
    /\ loaded.files = <<FileA, FileB>>
    /\ constants["fg"].color = [space |-> "RGB", value |-> <<1, 1, 1>>]
    /\ nodes["Sop"]["geo"] = ConstantEntry("geo", "fg", "a.json")
    /\ lastCall.op = "colorNode"
    /\ lastCall.node.type_name = "geo"
    /\ lastCall.node.category = "Sop"
    /\ lastCall.setColor = <<[space |-> "RGB", value |-> <<1, 1, 1>>]>>

\* C2: an entry of type "constant" whose constant is defined in several of
\* the merged files resolves, when a node is looked up, to the color the
\* constant has in the merged constants table, which is the definition of the
\* file discovered first, whatever the entry's own file says.
C2_ConstantResolvedAtQuery ==
    loaded.err = "none" =>
        \A t \in AssignTypes :
        \A c \in DOMAIN Held[t] :
        \A key \in DOMAIN Held[t][c] :
            LET entry == Held[t][c][key] IN
            entry.class = "ConstantEntry" =>
                \A i \in DOMAIN loaded.files :
                    ConstantCollides(loaded.files, i, entry.constant_name) =>
                        LET first == BuildColor(
                                loaded.files[i].json["constants"][entry.constant_name]).color
                        IN  /\ ResolveEntry(Held, entry) = Found(first)
                            /\ SoleMatch(t, c, key) => lastCall.setColor = <<first>>

\* C2's case: f.json defines bg and refers to it in tools/all, b.json was
\* discovered before it and defines bg differently; a node matched only by
\* that entry got the color of b.json's bg.
C2_Witness ==
    /\ loaded.err = "none"
    /\ loaded.files = <<FileB, FileF>>
    /\ tools["all"]["*"] = ConstantEntry("*", "bg", "f.json")
    /\ BuildColor(FileF.json["constants"]["bg"]).color
           = [space |-> "HSL", value |-> <<1, 1, 2>>]
    /\ lastCall.op = "colorNode"
    /\ SoleMatch("tools", "all", "*")
    /\ lastCall.setColor = <<[space |-> "HSV", value |-> <<1, 2, 3>>]>>

\* C3: colorNode applies the color of the first lookup that matches, in the
\* order type name, tool menu location, manager/generator (the last only for
\* a manager or generator type); it calls setColor at most once, and when no
\* lookup matches it calls nothing and raises nothing.
C3_ColorNodeOrder ==
    lastCall.op = "colorNode" =>
        LET node == lastCall.node
            byType == GetTypeColor(Held, node)
            byTool == GetToolColor(Held, node)
            byMG == GetManagerGeneratorColor(Held, node)
            applies(results) ==
                \E r \in results : r.kind = "color" /\ lastCall.setColor = <<r.color>>
        IN  /\ Len(lastCall.setColor) <= 1
            /\ lastCall.err = "none"
            /\ IF byType # {None} THEN applies(byType)
               ELSE IF byTool # {None} THEN applies(byTool)
               ELSE IF (node.isManager \/ node.isGenerator) /\ byMG # None
                    THEN applies({byMG})
               ELSE lastCall.setColor = <<>>

\* C3's case: the type name and a menu location both match, with different
\* colors, and the node was given the color of the type name.
C3_Witness ==
    /\ lastCall.op = "colorNode"
    /\ GetTypeColor(Held, lastCall.node) # {None}
    /\ GetToolColor(Held, lastCall.node) # {None}
    /\ GetToolColor(Held, lastCall.node) \cap GetTypeColor(Held, lastCall.node) = {}
    /\ Len(lastCall.setColor) = 1
    /\ Found(lastCall.setColor[1]) \in GetTypeColor(Held, lastCall.node)

\* C10: after a reload() that succeeded the four tables are those of a
\* manager constructed on the files the reload found, and hold no constant
\* and no entry that these files do not define, whatever was loaded before.
C10_ReloadIsFreshLoad ==
    (loaded.op = "reload" /\ loaded.err = "none") =>
        /\ \A order \in HashOrders :
               Held = BuildMappings(EmptyTables, loaded.files, order)
        /\ ~HoldsStale(Held, loaded.files)

\* C10's case: a reload succeeded on a manager that held a constant or an
\* entry the files found no longer define.
C10_Witness ==
    /\ loaded.op = "reload"
    /\ loaded.err = "none"
    /\ loaded.stale
    /\ loaded.files # <<>>

\* The entries file defines, in all tables and categories.
FileEntries(file) ==
    UNION {{EntryList(file, t, c)[i] : i \in DOMAIN EntryList(file, t, c)} :
              <<t, c>> \in AssignTypes \X CategoryNames}

\* The constants an entry of file refers to.
ReferencedBy(file) ==
    {entry.constant : entry \in {e \in FileEntries(file) : e.type = "constant"}}

\* file has a constant or an entry whose type is no color type.
HasInvalidType(file) ==
    \/ \E entry \in FileEntries(file) :
          entry.type # "constant" /\ entry.type \notin ColorTypes
    \/ "constants" \in DOMAIN file.json
          /\ \E name \in DOMAIN file.json["constants"] :
                file.json["constants"][name].type \notin ColorTypes

\* The entries of type "constant" the manager holds.
HeldConstantEntries ==
    UNION {{Held[t][c][k] : k \in {k \in DOMAIN Held[t][c] :
                                      Held[t][c][k].class = "ConstantEntry"}} :
              <<t, c>> \in {<<t, c>> \in AssignTypes \X CategoryNames :
                               c \in DOMAIN Held[t]}}

\* C11 as stated: the load fails when a file refers to a constant that
\* neither it nor a file processed before it (one discovered after it)
\* defines, even if a file processed later defines the constant.
C11_Original ==
    \A i \in DOMAIN loaded.files : \A name \in ReferencedBy(loaded.files[i]) :
        (\A j \in DOMAIN loaded.files :
            j >= i => ~DefinesConstant(loaded.files[j], name))
            => loaded.err # "none"

\* C11: the load registers the constants of all files before it processes
\* the entries of any, so an entry of type "constant" is stored when any of
\* the files defines the constant, also one processed later.  The load
\* fails when a file refers to a constant no file defines, with the
\* constant-not-found error unless a type that is no color type ended it
\* before; it fails with that error in no other case; and after a load that
\* succeeded every stored entry of type "constant" names a constant held.
C11_ConstantsBeforeEntries ==
    LET files == loaded.files
        defined == {name \in ConstantNames :
                       \E i \in DOMAIN files : DefinesConstant(files[i], name)}
        referenced == UNION {ReferencedBy(files[i]) : i \in DOMAIN files}
        invalid == \E i \in DOMAIN files : HasInvalidType(files[i])
    IN  loaded.op # "none" =>
            /\ ~(referenced \subseteq defined) => loaded.err # "none"
            /\ (~(referenced \subseteq defined) /\ ~invalid)
                   => loaded.err = "ConstantDoesNotExistError"
            /\ loaded.err = "ConstantDoesNotExistError"
                   => ~(referenced \subseteq defined)
            /\ (referenced \subseteq defined /\ ~invalid) => loaded.err = "none"
            /\ loaded.err = "none" =>
                   \A entry \in HeldConstantEntries :
                       entry.constant_name \in DOMAIN constants

\* C11's case: the file a reload processed first refers to a constant that
\* only the file processed after it defines; the load succeeded and the
\* entry is stored.
C11_Witness ==
    /\ loaded.op = "reload"
    /\ loaded.err = "none"
    /\ Len(loaded.files) = 2
    /\ \E name \in ReferencedBy(loaded.files[2]) :
          /\ ~DefinesConstant(loaded.files[2], name)
          /\ DefinesConstant(loaded.files[1], name)
          /\ \E entry \in HeldConstantEntries :
                entry.constant_name = name /\ entry.path = loaded.files[2].path

\* The keys looked up for a node type: "manager" when it is a manager, then
\* "generator" when it is a generator.
FlagKeys(node) ==
    (IF node.isManager THEN <<"manager">> ELSE <<>>)
        \o (IF node.isGenerator THEN <<"generator">> ELSE <<>>)

\* The first key of keys present in the nodes table under the first of
\* categories that has one, resolved; None when there is none.
RECURSIVE FirstKeyPresent(_, _, _)
FirstKeyPresent(categories, keys, all_keys) ==
    IF categories = <<>> THEN None
    ELSE IF keys = <<>> THEN FirstKeyPresent(Tail(categories), all_keys, all_keys)
    ELSE IF Head(categories) \in DOMAIN nodes
            /\ Head(keys) \in DOMAIN nodes[Head(categories)]
         THEN ResolveEntry(Held, nodes[Head(categories)][Head(keys)])
         ELSE FirstKeyPresent(categories, Tail(keys), all_keys)

\* A colorNode call that came to the manager/generator lookup: neither the
\* type name nor a tool menu location matched.
CameToManagerGenerator ==
    /\ lastCall.op = "colorNode"
    /\ GetTypeColor(Held, lastCall.node) = {None}
    /\ GetToolColor(Held, lastCall.node) = {None}
    /\ lastCall.node.isManager \/ lastCall.node.isGenerator

\* C16: the manager/generator lookup visits the category of the type, then
\* "all", and in each looks up "manager" when the type is a manager and
\* "generator" when it is a generator, in that order; the node gets the
\* resolved color of the first key present, so a generator gets the color of
\* a "generator" entry also when it is a manager too and there is no
\* "manager" entry.
C16_ManagerGeneratorLookup ==
    CameToManagerGenerator =>
        LET node == lastCall.node
            expected == FirstKeyPresent(<<node.category, "all">>,
                                        FlagKeys(node), FlagKeys(node))
        IN  /\ lastCall.setColor = Effect(expected).setColor
            /\ lastCall.err = Effect(expected).err

\* The same for the node types that are not both a manager and a generator.
ManagerOrGeneratorLookup ==
    (CameToManagerGenerator /\ ~(lastCall.node.isManager /\ lastCall.node.isGenerator)) =>
        LET node == lastCall.node
            expected == FirstKeyPresent(<<node.category, "all">>,
                                        FlagKeys(node), FlagKeys(node))
        IN  /\ lastCall.setColor = Effect(expected).setColor
            /\ lastCall.err = Effect(expected).err

\* ------------------------------------------------------------------------
\* aov.py: values
\* ------------------------------------------------------------------------

\* A str of one atom, and Python's None, True and False among strs.
S(atom) == <<atom>>
PyNone == <<"<None>">>
PyTrue == <<"<True>">>
PyFalse == <<"<False>">>

\* bool(v) for v a str, None, True or False
Truthy(v) == v # PyNone /\ v # PyFalse /\ v # <<>>

\* ALLOWABLE_VALUES
ALLOWABLE_VALUES ==
    [lightexport |-> {S("per-category"), S("per-light"), S("single")},
     quantization |-> {S("8"), S("16"), S("half"), S("float")},
     vextype |-> {S("float"), S("unitvector"), S("vector"), S("vector4")}]

\* A reference to a list object: the list of _DEFAULT_AOV_DATA, or a list of
\* the caller's with these items.
DefaultList == [list |-> "default", items |-> <<>>]
OwnList(items) == [list |-> "own", items |-> items]

\* copy.copy(_DEFAULT_AOV_DATA): a new dict with the same values, so its
\* "components" is the list object of _DEFAULT_AOV_DATA itself.
DefaultAOVData ==
    [variable |-> PyNone,
     vextype |-> PyNone,
     channel |-> PyNone,
     componentexport |-> PyNone,
     components |-> DefaultList,
     comment |-> <<>>,
     intrinsic |-> PyNone,
     lightexport |-> PyNone,
     lightexport_scope |-> S("*"),
     lightexport_select |-> S("*"),
     path |-> PyNone,
     pfilter |-> PyNone,
     planefile |-> PyNone,
     priority |-> -1,
     quantize |-> PyNone,
     sfilter |-> PyNone]

\* An exception: its class and the name it carries ("": none).
Raised(kind, name) == [kind |-> kind, name |-> name]
NoError == Raised("none", "")

\* ------------------------------------------------------------------------
\* aov.py: AOV construction
\* ------------------------------------------------------------------------

\* The names of data that the loop of _updateData would raise on (lines
\* 206-212): restricted names whose value is not allowable.
InvalidNames(data) ==
    {name \in DOMAIN data :
        name \in DOMAIN ALLOWABLE_VALUES /\ data[name] \notin ALLOWABLE_VALUES[name]}

\* self._data after the loop of _updateData stored every item of data
\* (lines 216-217): only the names self._data has are stored.
Updated(d, data) ==
    [name \in DOMAIN d |-> IF name \in DOMAIN data THEN data[name] ELSE d[name]]

\* _verifyInternalData() without the check of vextype
VerifyVariableOnly(d) ==
    IF d.variable = PyNone THEN Raised("MissingVariableError", "") ELSE NoError

\* _verifyInternalData()
VerifyInternalData(d) ==
    IF d.variable = PyNone THEN Raised("MissingVariableError", "")
    ELSE IF d.vextype = PyNone THEN Raised("MissingVexTypeError", "")
    ELSE NoError

\* _updateData(data) on self._data = d: what it may raise and leave.  The loop
\* takes the items in dict order, which is not specified, so the first
\* unallowable value met may be any of them.
UpdateData(d, data) ==
    IF InvalidNames(data) # {}
    THEN {[err |-> Raised("InvalidAOVValueError", name), data |-> d] :
             name \in InvalidNames(data)}
    ELSE {[err |-> VerifyInternalData(Updated(d, data)), data |-> Updated(d, data)]}

\* AOV(data), lines 43-46
NewAOV(data) == UpdateData(DefaultAOVData, data)

\* The components property: the items of the list self._data refers to.
Components(d) ==
    IF d.components.list = "default" THEN defaultComponents ELSE d.components.items

\* ------------------------------------------------------------------------
\* AOV: state and operations
\* ------------------------------------------------------------------------

NoAOVCall == [op |-> "none", input |-> EmptyDict, err |-> NoError]

\* The values AOV(data) is called with, per name of data.  "quantization" is
\* a name of ALLOWABLE_VALUES, "quantize" the name of the field.
InputValues ==
    [variable |-> {PyNone, S("Cf")},
     vextype |-> {PyNone, S("float"), S("vector"), S("half")},
     quantize |-> {S("half"), S("bogus")},
     quantization |-> {S("half"), S("bogus")},
     lightexport |-> {S("per-light"), S("bogus")}]

AOVInputs ==
    {data \in UNION {[K -> UNION {InputValues[k] : k \in K}] :
                        K \in SUBSET DOMAIN InputValues} :
        \A k \in DOMAIN data : data[k] \in InputValues[k]}

\* aov = AOV(data): when __init__ raises there is no object, and aov is left
\* as copy.copy(_DEFAULT_AOV_DATA) made it.
Construct(data) ==
    /\ \E out \in NewAOV(data) :
          /\ aov' = IF out.err = NoError THEN out.data ELSE DefaultAOVData
          /\ aovCall' = [op |-> "__init__", input |-> data, err |-> out.err]
    /\ UNCHANGED defaultComponents
    /\ UNCHANGED notAOV

\* The values the properties of an AOV are assigned.
SetterValues ==
    [variable |-> {PyNone, S("N")},
     vextype |-> {S("float"), S("bogus")},
     lightexport |-> {PyNone, S("single"), S("bogus")},
     quantize |-> {S("8")}]

\* aov.<name> = value, the setter of the property: it stores the value.
SetProperty(name, value) ==
    /\ aovCall.op # "none"
    /\ aovCall.err = NoError
    /\ aov' = [aov EXCEPT ![name] = value]
    /\ aovCall' = [op |-> "set", input |-> Dict1(name, value), err |-> NoError]
    /\ UNCHANGED defaultComponents
    /\ UNCHANGED notAOV

\* No AOV constructed yet; _DEFAULT_AOV_DATA as the module defines it.
AOVIdle ==
    /\ defaultComponents = <<>>
    /\ aov = DefaultAOVData
    /\ aovCall = NoAOVCall

AOVInit == AOVIdle

AOVNext ==
    \/ \E data \in AOVInputs : Construct(data)
    \/ \E name \in DOMAIN SetterValues : \E value \in SetterValues[name] :
          SetProperty(name, value)

\* ------------------------------------------------------------------------
\* aov.py: AOVGroup
\* ------------------------------------------------------------------------

\* A group holds at most this many members.
MaxMembers == 3

\* A list of components holds at most this many.
MaxComponents == 1

\* AOVGroup(name), lines 563-570
NewAOVGroup(name) ==
    [class |-> "AOVGroup", aovs |-> <<>>, comment |-> <<>>, icon |-> PyNone,
     includes |-> <<>>, name |-> name, path |-> PyNone, priority |-> -1]

\* IntrinsicAOVGroup(name), lines 691-694
NewIntrinsicAOVGroup(name) ==
    [NewAOVGroup(name) EXCEPT !.class = "IntrinsicAOVGroup",
                              !.comment = <<"Automatically", " ", "generated">>]

\* clear() emptying the list of names and not the list of AOVs
GroupClearedIncludes(g) == [g EXCEPT !.includes = <<>>]

\* AOVGroup.clear(): the fields after it
GroupCleared(g) == [g EXCEPT !.aovs = <<>>]

\* AOVGroup.getData(); objects maps the ids in g.aovs to the AOVs' _data.
GroupGetData(g, objects) ==
    LET include == [i \in DOMAIN g.aovs |-> objects[g.aovs[i]].variable]
        keys == {"include"}
                    \cup (IF Truthy(g.comment) THEN {"comment"} ELSE {})
                    \cup (IF g.priority # -1 THEN {"priority"} ELSE {})
    IN  Dict1(g.name,
              [k \in keys |->
                  CASE k = "include" -> include
                    [] k = "comment" -> g.comment
                    [] k = "priority" -> g.priority])

\* The AOV objects at hand: two of the same variable, one of another; the
\* last was given a list of components of the caller's.
PoolInputs ==
    <<[variable |-> S("Cf"), vextype |-> S("vector")],
      [variable |-> S("N"), vextype |-> S("vector"), componentexport |-> PyTrue],
      [variable |-> S("Cf"), vextype |-> S("float"), components |-> OwnList(<<>>)]>>

GroupComments == {<<>>, S("beauty")}
GroupPriorities == {-1, 0, 5}
VariableNames == {S("Cf"), S("N"), S("P")}

\* group.aovs.append(aov): the aovs property returns the list itself.
GroupAppend(id) ==
    /\ Len(group.aovs) < MaxMembers
    /\ group' = [group EXCEPT !.aovs = Append(@, id)]
    /\ groupLog' = [groupLog EXCEPT !.added = Append(@, id)]
    /\ UNCHANGED pool
    /\ UNCHANGED notGroup

\* group.clear()
GroupClear ==
    /\ group' = GroupCleared(group)
    /\ groupLog' = [added |-> <<>>, cleared |-> TRUE]
    /\ UNCHANGED pool
    /\ UNCHANGED notGroup

\* group.comment = comment
GroupSetComment(comment) ==
    /\ group' = [group EXCEPT !.comment = comment]
    /\ UNCHANGED <<pool, groupLog>>
    /\ UNCHANGED notGroup

\* group.priority = priority
GroupSetPriority(priority) ==
    /\ group' = [group EXCEPT !.priority = priority]
    /\ UNCHANGED <<pool, groupLog>>
    /\ UNCHANGED notGroup

\* aov.variable = variable, for an AOV a group may hold
PoolSetVariable(id, variable) ==
    /\ pool' = [pool EXCEPT ![id].variable = variable]
    /\ UNCHANGED <<group, groupLog>>
    /\ UNCHANGED notGroup

\* aov.components.append(component): the components property returns the
\* list self._data refers to, and append changes that list object.
PoolAppendComponent(id, component) ==
    /\ Len(Components(pool[id])) < MaxComponents
    /\ IF pool[id].components.list = "default"
       THEN /\ defaultComponents' = Append(defaultComponents, component)
            /\ UNCHANGED pool
       ELSE /\ pool' = [pool EXCEPT ![id].components.items = Append(@, component)]
            /\ UNCHANGED defaultComponents
    /\ UNCHANGED <<aov, aovCall, group, groupLog>>
    /\ UNCHANGED <<colorVars, expandVars>>

GroupIdle ==
    /\ pool = <<>>
    /\ group = NewAOVGroup(S("idle"))
    /\ groupLog = [added |-> <<>>, cleared |-> FALSE]

GroupInit ==
    /\ pool = [i \in DOMAIN PoolInputs |->
                  (CHOOSE out \in NewAOV(PoolInputs[i]) : TRUE).data]
    /\ group \in {NewAOVGroup(S("grp")), NewIntrinsicAOVGroup(S("grp"))}
    /\ groupLog = [added |-> <<>>, cleared |-> FALSE]

GroupNext ==
    \/ \E id \in DOMAIN pool : GroupAppend(id)
    \/ GroupClear
    \/ \E comment \in GroupComments : GroupSetComment(comment)
    \/ \E priority \in GroupPriorities : GroupSetPriority(priority)
    \/ \E id \in DOMAIN pool, variable \in VariableNames : PoolSetVariable(id, variable)
    \/ \E id \in DOMAIN pool : PoolAppendComponent(id, S("diffuse"))

\* ------------------------------------------------------------------------
\* Claims about AOV construction and AOVGroup
\* ------------------------------------------------------------------------

\* The input of the last AOV(data) call names the field with a value other
\* than None.
Given(name) == name \in DOMAIN aovCall.input /\ aovCall.input[name] # PyNone

\* The input gives a restricted name a value that is not allowable for it.
GivesUnallowable ==
    \E name \in DOMAIN ALLOWABLE_VALUES :
        /\ name \in DOMAIN aovCall.input
        /\ aovCall.input[name] \notin ALLOWABLE_VALUES[name]

\* Every AOV that was constructed has the variable and the vextype of its
\* input, the variable not None and the vextype an allowable one.
ConstructedIsValid ==
    aovCall.err = NoError =>
        /\ Given("variable") /\ aov.variable = aovCall.input["variable"]
        /\ Given("vextype") /\ aov.vextype = aovCall.input["vextype"]
        /\ aov.vextype \in ALLOWABLE_VALUES["vextype"]

\* C4 as stated: construction succeeds only with a variable and an allowable
\* vextype; input without variable fails with the missing-variable error,
\* input (with a variable and) without vextype with the missing-vextype
\* error, a vextype that is not allowable with the invalid-value error.
C4_Original ==
    aovCall.op = "__init__" =>
        /\ ConstructedIsValid
        /\ ~Given("variable") => aovCall.err.kind = "MissingVariableError"
        /\ (Given("variable") /\ "vextype" \notin DOMAIN aovCall.input)
               => aovCall.err.kind = "MissingVexTypeError"
        /\ ("vextype" \in DOMAIN aovCall.input
               /\ aovCall.input["vextype"] \notin ALLOWABLE_VALUES["vextype"])
               => aovCall.err.kind = "InvalidAOVValueError"

\* C4 (amended): construction succeeds exactly when no restricted name
\* (vextype, lightexport, quantization) is given an unallowable value and
\* variable and vextype are given.  The values are checked first: an
\* unallowable value fails with the invalid-value error whatever is missing;
\* otherwise input without variable fails with the missing-variable error,
\* and otherwise input without vextype with the missing-vextype error.  So
\* every constructed AOV has a variable and an allowable vextype.
C4_ConstructionValidated ==
    aovCall.op = "__init__" =>
        /\ ConstructedIsValid
        /\ GivesUnallowable => aovCall.err.kind = "InvalidAOVValueError"
        /\ (~GivesUnallowable /\ ~Given("variable"))
               => aovCall.err.kind = "MissingVariableError"
        /\ (~GivesUnallowable /\ Given("variable")
                /\ "vextype" \notin DOMAIN aovCall.input)
               => aovCall.err.kind = "MissingVexTypeError"
        /\ (~GivesUnallowable /\ Given("variable") /\ Given("vextype"))
               => aovCall.err = NoError

\* C4's case: input without variable and with a vextype that is not
\* allowable failed, and with the invalid-value error.
C4_Witness ==
    /\ aovCall.op = "__init__"
    /\ "variable" \notin DOMAIN aovCall.input
    /\ "vextype" \in DOMAIN aovCall.input
    /\ aovCall.input["vextype"] = S("half")
    /\ aovCall.err = Raised("InvalidAOVValueError", "vextype")

\* C5: construction with a quantize value that is not one of 8, 16, half,
\* float fails (the claim: with the invalid-value error; stated here with
\* whichever error), and no constructed AOV holds a quantize other than one
\* of these or None.
C5_QuantizeValidated ==
    aovCall.op = "__init__" =>
        /\ ("quantize" \in DOMAIN aovCall.input
               /\ aovCall.input["quantize"] \notin ALLOWABLE_VALUES["quantization"])
               => aovCall.err # NoError
        /\ aovCall.err = NoError
               => aov.quantize \in ALLOWABLE_VALUES["quantization"] \cup {PyNone}

\* C18: in every state of an AOVGroup, after any member additions through
\* aovs and calls of clear(), includes is the sequence of the variable names
\* of the current members, in order.
C18_IncludesAreMembers ==
    group.includes = [i \in DOMAIN group.aovs |-> pool[group.aovs[i]].variable]

\* C17: once an AOV is constructed, after any sequence of assignments to its
\* properties its variable is not None, its vextype is an allowable one and
\* its lightexport is None or an allowable one.
C17_ValidAfterAssignment ==
    (aovCall.op # "none" /\ aovCall.err = NoError) =>
        /\ aov.variable # PyNone
        /\ aov.vextype \in ALLOWABLE_VALUES["vextype"]
        /\ aov.lightexport \in ALLOWABLE_VALUES["lightexport"] \cup {PyNone}

\* C6: getData()[name]["include"] of a group is the list of the variables of
\* the members added since the last clear(), in the order they were added;
\* "comment" is a key exactly when the comment is not empty and "priority"
\* exactly when the priority is not -1.
C6_GroupGetDataInclude ==
    LET d == GroupGetData(group, pool)[group.name] IN
    /\ d["include"] = [i \in DOMAIN groupLog.added |-> pool[groupLog.added[i]].variable]
    /\ "comment" \in DOMAIN d <=> group.comment # <<>>
    /\ "comment" \in DOMAIN d => d["comment"] = group.comment
    /\ "priority" \in DOMAIN d <=> group.priority # -1
    /\ "priority" \in DOMAIN d => d["priority"] = group.priority

\* C6's case: after a clear(), a group has two members of different
\* variables again, a comment and a priority.
C6_Witness ==
    /\ groupLog.cleared
    /\ Len(groupLog.added) = 2
    /\ GroupGetData(group, pool)[group.name]["include"] = <<S("N"), S("Cf")>>
    /\ DOMAIN GroupGetData(group, pool)[group.name] = {"include", "comment", "priority"}

\* ------------------------------------------------------------------------
\* aov.py: str methods
\* ------------------------------------------------------------------------

\* The atoms that are whitespace.
Whitespace == {" "}

\* str(v), as format() renders a value
Str(v) ==
    IF v = PyNone THEN S("None")
    ELSE IF v = PyTrue THEN S("True")
    ELSE IF v = PyFalse THEN S("False")
    ELSE v

\* string.replace(old, new) for one-atom old and new
Replace(string, old, new) ==
    [i \in DOMAIN string |-> IF string[i] = old THEN new ELSE string[i]]

\* sep.join(strings)
RECURSIVE Join(_, _)
Join(strings, sep) ==
    IF strings = <<>> THEN <<>>
    ELSE IF Len(strings) = 1 THEN Head(strings)
    ELSE Head(strings) \o sep \o Join(Tail(strings), sep)

\* string.split(): the words between runs of whitespace, word being the
\* word read so far and words the words before it
RECURSIVE SplitInto(_, _, _)
SplitInto(string, word, words) ==
    LET ended == IF word = <<>> THEN words ELSE Append(words, word)
    IN  IF string = <<>> THEN ended
        ELSE IF Head(string) \in Whitespace
             THEN SplitInto(Tail(string), <<>>, ended)
             ELSE SplitInto(Tail(string), Append(word, Head(string)), words)

\* string.split(" "): every space separates, empty words are kept
RECURSIVE SplitKeepEmpty(_)
SplitKeepEmpty(string) ==
    IF \A i \in DOMAIN string : string[i] \notin Whitespace THEN <<string>>
    ELSE LET i == CHOOSE i \in DOMAIN string :
                      /\ string[i] \in Whitespace
                      /\ \A j \in 1..(i - 1) : string[j] \notin Whitespace
         IN  <<SubSeq(string, 1, i - 1)>>
                 \o SplitKeepEmpty(SubSeq(string, i + 1, Len(string)))

\* string.split()
Split(string) == SplitInto(string, <<>>, <<>>)

\* ------------------------------------------------------------------------
\* soho: the lights of the host
\* ------------------------------------------------------------------------

\* A light object: getName() and its parameters (PyNone: the light has no
\* such parameter).
Light(name, prefix, suffix, categories) ==
    [name |-> name, vm_export_prefix |-> prefix, vm_export_suffix |-> suffix,
     categories |-> categories]

\* light.evalString(parm, now, list): whether the parameter exists, and the
\* list after the call
EvalString(light, parm) ==
    IF light[parm] = PyNone THEN [ok |-> FALSE, list |-> <<>>]
    ELSE [ok |-> TRUE, list |-> <<light[parm]>>]

\* light.getDefaultedString(parm, now, default)
GetDefaultedString(light, parm, default) ==
    IF light[parm] = PyNone THEN default ELSE <<light[parm]>>

\* ------------------------------------------------------------------------
\* aov.py: AOV.getData and AOV._lightExportPlanes
\* ------------------------------------------------------------------------

\* AOV.getData() on self._data = d
GetData(d) ==
    LET keys ==
            {"variable", "vextype"}
                \cup (IF Truthy(d.channel) THEN {"channel"} ELSE {})
                \cup (IF d.quantize # PyNone THEN {"quantize"} ELSE {})
                \cup (IF d.sfilter # PyNone THEN {"sfilter"} ELSE {})
                \cup (IF d.pfilter # PyNone THEN {"pfilter"} ELSE {})
                \cup (IF d.componentexport # PyNone THEN {"componentexport"} ELSE {})
                \cup (IF d.componentexport # PyNone /\ Components(d) # <<>>
                         THEN {"components"} ELSE {})
                \cup (IF d.lightexport # PyNone THEN {"lightexport"} ELSE {})
                \cup (IF d.lightexport # PyNone /\ d.lightexport # S("per-category")
                         THEN {"lightexport_scope", "lightexport_select"} ELSE {})
                \cup (IF Truthy(d.intrinsic) THEN {"intrinsic"} ELSE {})
                \cup (IF Truthy(d.comment) THEN {"comment"} ELSE {})
                \cup (IF d.priority # -1 THEN {"priority"} ELSE {})
    IN  [k \in keys |-> IF k = "components" THEN Components(d) ELSE d[k]]

\* One call of writeDataToIfd(data, ...): step is the _lightExportPlanes call
\* that makes it, error whether soho.error was called just before it.
WriteCall(data, step, error) == [data |-> data, step |-> step, error |-> error]

\* The channel of a light in per-light export, lines 91-123, and whether
\* soho.error is called.
PerLightChannel(light, base_channel) ==
    LET suffix == GetDefaultedString(light, "vm_export_suffix", <<<<>>>>)[1]
        found == EvalString(light, "vm_export_prefix")
        prefix == IF ~found.ok
                  THEN <<Replace(Tail(light.name), "/", "_")>>
                  ELSE found.list
    IN  IF prefix # <<>>
        THEN [error |-> FALSE,
              channel |-> Str(prefix[1]) \o S("_") \o Str(base_channel) \o Str(suffix)]
        ELSE IF suffix # <<>>
        THEN [error |-> FALSE, channel |-> Str(base_channel) \o Str(suffix)]
        ELSE [error |-> TRUE, channel |-> base_channel]

\* The loop of lines 89-128 over lights, from data and the calls made so far.
RECURSIVE PerLightPlanes(_, _, _, _, _)
PerLightPlanes(lights, data, base_channel, step, calls) ==
    IF lights = <<>> THEN [data |-> data, calls |-> calls]
    ELSE LET light == Head(lights)
             named == PerLightChannel(light, base_channel)
             next == Put(Put(data, "channel", named.channel), "lightexport", light.name)
         IN  PerLightPlanes(Tail(lights), next, base_channel, step,
                            Append(calls, WriteCall(next, step, named.error)))

\* The join of the names of lights only
SingleLightExportJoinOnly(lights) ==
    Join([i \in DOMAIN lights |-> lights[i].name], S(" "))

\* The lightexport of single export, lines 132-139
SingleLightExport(lights) ==
    LET lightexport == Join([i \in DOMAIN lights |-> lights[i].name], S(" "))
    IN  IF lightexport = <<>> THEN S("__nolights__") ELSE lightexport

\* category_map with light appended to the lists of categories, lines 168-177
RECURSIVE AddToCategories(_, _, _)
AddToCategories(category_map, categories, light) ==
    IF categories = <<>> THEN category_map
    ELSE LET category == Head(categories)
             category_lights == IF category \in DOMAIN category_map
                                THEN category_map[category] ELSE <<>>
         IN  AddToCategories(Put(category_map, category, Append(category_lights, light)),
                             Tail(categories), light)

\* The loop putting a light without a categories parameter in "__none__"
RECURSIVE CategoryMapNoneForMissing(_, _)
CategoryMapNoneForMissing(lights, category_map) ==
    IF lights = <<>> THEN category_map
    ELSE LET light == Head(lights)
             found == EvalString(light, "categories").list
             categories == IF found = <<>> THEN <<>>
                           ELSE Split(Replace(found[1], ",", " "))
         IN  CategoryMapNoneForMissing(
                 Tail(lights),
                 AddToCategories(category_map,
                                 IF categories = <<>> THEN <<S("__none__")>>
                                 ELSE categories,
                                 light))

\* category_map after the loop of lines 151-177 over lights
RECURSIVE CategoryMap(_, _)
CategoryMap(lights, category_map) ==
    IF lights = <<>> THEN category_map
    ELSE LET light == Head(lights)
             found == EvalString(light, "categories").list
             categories == Split(Replace(found[1], ",", " "))
         IN  IF found = <<>> THEN CategoryMap(Tail(lights), category_map)
             ELSE IF categories = <<>>
             THEN CategoryMap(Tail(lights),
                              AddToCategories(category_map, <<S("__none__")>>, light))
             ELSE CategoryMap(Tail(lights),
                              AddToCategories(category_map, categories, light))

\* The loop of lines 180-196 over the categories in the order given
RECURSIVE PerCategoryPlanes(_, _, _, _, _, _)
PerCategoryPlanes(categories, category_map, data, base_channel, step, calls) ==
    IF categories = <<>> THEN [data |-> data, calls |-> calls]
    ELSE LET category == Head(categories)
             lights == category_map[category]
             lightexport == Join([i \in DOMAIN lights |-> lights[i].name], S(" "))
             next == Put(Put(data, "lightexport", lightexport), "channel",
                         Str(category) \o S("_") \o Str(base_channel))
         IN  PerCategoryPlanes(Tail(categories), category_map, next, base_channel,
                               step, Append(calls, WriteCall(next, step, FALSE)))

\* self._lightExportPlanes(data, ...) on self._data = d, as the step-th such
\* call of writeToIfd: data as it leaves it and the calls made so far.  lights
\* is what cam.objectList answers, order the order in which the process
\* iterates the keys of category_map.
LightExportPlanes(d, data, lights, order, step, calls) ==
    LET base_channel == data["channel"]
    IN  IF d.lightexport # PyNone
        THEN IF d.lightexport = S("per-light")
             THEN PerLightPlanes(lights, data, base_channel, step, calls)
             ELSE IF d.lightexport = S("single")
             THEN LET next == Put(data, "lightexport", SingleLightExport(lights))
                  IN  [data |-> next,
                       calls |-> Append(calls, WriteCall(next, step, FALSE))]
             ELSE IF d.lightexport = S("per-category")
             THEN LET category_map == CategoryMap(lights, EmptyDict)
                  IN  PerCategoryPlanes(IterKeys(category_map, order), category_map,
                                        data, base_channel, step, calls)
             ELSE [data |-> data, calls |-> calls]
        ELSE [data |-> data, calls |-> Append(calls, WriteCall(data, step, FALSE))]

\* ------------------------------------------------------------------------
\* aov.py: AOV.writeToIfd and AOV.writeDataToIfd
\* ------------------------------------------------------------------------

\* What cam.wrangle answers for vm_exportcomponents: no plist, or a plist
\* with this string as Value[0].
NoPlist == [ok |-> FALSE, value |-> <<>>]
Plist(value) == [ok |-> TRUE, value |-> value]

\* The loop of lines 542-546 over components, from data and the calls made
\* so far; step counts the _lightExportPlanes calls.
RECURSIVE ComponentPlanes(_, _, _, _, _, _, _, _)
ComponentPlanes(d, data, channel, components, lights, order, step, calls) ==
    IF components = <<>> THEN [data |-> data, calls |-> calls, steps |-> step]
    ELSE LET component == Head(components)
             next == Put(Put(data, "channel",
                             Str(channel) \o S("_") \o Str(component)),
                         "component", component)
             out == LightExportPlanes(d, next, lights, order, step + 1, calls)
         IN  ComponentPlanes(d, out.data, channel, Tail(components), lights,
                             order, step + 1, out.calls)

\* self.writeToIfd(wrangler, cam, now) on self._data = d: the writeDataToIfd
\* calls it makes in order, the number of _lightExportPlanes calls, and
\* whether cam.wrangle was called.
WriteToIfd(d, lights, plist, order) ==
    LET data == GetData(d)
        channel == IF d.channel = PyNone THEN d.variable ELSE d.channel
        own == Components(d)
        components == IF own # <<>> THEN own
                      ELSE IF plist.ok THEN Split(plist.value)
                      ELSE own
    IN  IF Truthy(d.componentexport)
        THEN LET out == ComponentPlanes(d, data, channel, components, lights,
                                        order, 0, <<>>)
             IN  [calls |-> out.calls, steps |-> out.steps, wrangled |-> own = <<>>]
        ELSE LET out == LightExportPlanes(d, Put(data, "channel", channel),
                                          lights, order, 1, <<>>)
             IN  [calls |-> out.calls, steps |-> 1, wrangled |-> FALSE]

\* IFDapi.ray_property("plane", name, [value])
RayProperty(name, value) == [call |-> "ray_property", name |-> name, value |-> value]
RayStart == [call |-> "ray_start", name |-> "plane", value |-> <<>>]
RayEnd == [call |-> "ray_end", name |-> "", value |-> <<>>]

\* The ray_property calls of writeDataToIfd(data, ...), lines 423-446
PlaneProperties(data) ==
    LET optional(name, key) ==
            IF key \in DOMAIN data THEN <<RayProperty(name, data[key])>> ELSE <<>>
    IN  <<RayProperty("variable", data["variable"]),
          RayProperty("vextype", data["vextype"]),
          RayProperty("channel", data["channel"])>>
            \o optional("quantize", "quantize")
            \o (IF "planefile" \in DOMAIN data /\ data["planefile"] # PyNone
                THEN <<RayProperty("planefile", data["planefile"])>> ELSE <<>>)
            \o optional("lightexport", "lightexport")
            \o optional("pfilter", "pfilter")
            \o optional("sfilter", "sfilter")
            \o optional("component", "component")

\* writeDataToIfd sending ray_end whatever the post_defplane hook returns
WriteDataToIfdCallsAlwaysEnd(data, pre, post) ==
    IF pre THEN <<>> ELSE <<RayStart>> \o PlaneProperties(data) \o <<RayEnd>>

\* The IFDapi calls of writeDataToIfd(data, ...) when the pre_defplane hook
\* returns pre and the post_defplane hook returns post, lines 415-453
WriteDataToIfdCalls(data, pre, post) ==
    IF pre THEN <<>>
    ELSE <<RayStart>> \o PlaneProperties(data) \o (IF post THEN <<>> ELSE <<RayEnd>>)

\* ------------------------------------------------------------------------
\* AOV.writeToIfd: state and operations
\* ------------------------------------------------------------------------

\* cam.objectList answers at most this many lights.
MaxLights == 2

\* The lights of the scene.  /obj/key has none of the parameters; /obj/fill
\* has them all, blank; /obj/rim has a prefix, a suffix and categories with a
\* tag twice; /obj/sun has a blank prefix, a suffix and categories.
Lights ==
    {Light(<<"/", "obj", "/", "key">>, PyNone, PyNone, PyNone),
     Light(<<"/", "obj", "/", "fill">>, <<>>, <<>>, <<>>),
     Light(<<"/", "obj", "/", "rim">>, S("rim"), S("_s"), <<"a", ",", "b", ",", "a">>),
     Light(<<"/", "obj", "/", "sun">>, <<>>, S("_s"), <<" ", "b", " ", " ", "a">>)}

\* What cam.objectList may answer: lists of different lights.
LightLists ==
    UNION {{l \in [1..n -> Lights] : \A i, j \in 1..n : i # j => l[i] # l[j]} :
              n \in 0..MaxLights}

\* What cam.wrangle may answer.
Plists ==
    {NoPlist, Plist(<<>>), Plist(<<"R", " ", "G", " ", "B">>),
     Plist(<<" ", "R", " ", " ", "G", " ">>)}

\* The orders in which the process may iterate the keys of category_map.
CategoryOrders == Orderings({S("a"), S("b"), S("__none__")})

\* The AOVs written: AOV(data) for these data, with and without a list of
\* components of the caller's, and with these of the optional properties.
ExpandValues ==
    [channel |-> {<<>>, S("ch")},
     componentexport |-> {PyTrue, PyFalse},
     lightexport |-> ALLOWABLE_VALUES["lightexport"]]

ExpandComponents == <<S("diffuse"), S("refl")>>

OptionalValues ==
    [quantize |-> S("half"),
     planefile |-> S("Cf.exr"),
     pfilter |-> S("gaussian"),
     sfilter |-> S("alpha")]

OptionalSets == {{}, {"quantize", "sfilter"}, {"planefile", "pfilter"}}

ExpandInputs ==
    LET given == {data \in UNION {[K -> UNION {ExpandValues[k] : k \in K}] :
                                     K \in SUBSET DOMAIN ExpandValues} :
                     \A k \in DOMAIN data : data[k] \in ExpandValues[k]}
        valid == {Put(Put(data, "variable", S("Cf")), "vextype", S("vector")) :
                     data \in given}
        listed == valid \cup {Put(data, "components", OwnList(ExpandComponents)) :
                                 data \in valid}
    IN  {[k \in DOMAIN data \cup K |->
             IF k \in K THEN OptionalValues[k] ELSE data[k]] :
            data \in listed, K \in OptionalSets}

NoRender ==
    [pc |-> "idle", lights |-> <<>>, plist |-> NoPlist, order |-> <<>>,
     calls |-> <<>>, steps |-> 0, wrangled |-> FALSE, listed |-> FALSE, written |-> 0]

NoIfd == [last |-> <<>>, pre |-> FALSE, post |-> FALSE, open |-> 0, errors |-> 0]

\* aov.writeToIfd(wrangler, cam, now) up to its first writeDataToIfd call.
\* The host is asked for the lights when lightexport is not None, for the
\* plist when componentexport is true and the AOV has no components, and the
\* order of category_map matters in per-category export.
BeginWriteToIfd(lights, plist, order) ==
    /\ render.pc = "idle"
    /\ aovCall.err = NoError
    /\ LET asksPlist == Truthy(aov.componentexport) /\ Components(aov) = <<>>
           out == WriteToIfd(aov, lights, plist, order)
       IN  /\ aov.lightexport = PyNone => lights = <<>>
           /\ ~asksPlist => plist = NoPlist
           /\ aov.lightexport # S("per-category") <=> order = <<>>
           /\ render' = [pc |-> IF out.calls = <<>> THEN "done" ELSE "writing",
                         lights |-> lights, plist |-> plist, order |-> order,
                         calls |-> out.calls, steps |-> out.steps,
                         wrangled |-> out.wrangled,
                         listed |-> aov.lightexport # PyNone /\ out.steps > 0,
                         written |-> 0]
           /\ ifd' = NoIfd
    /\ UNCHANGED notExpand

\* The next writeDataToIfd(data, ...) call of writeToIfd, with what the two
\* hooks return.
WriteDataToIfd(pre, post) ==
    /\ render.pc = "writing"
    /\ pre => ~post
    /\ LET call == render.calls[render.written + 1]
           sent == WriteDataToIfdCalls(call.data, pre, post)
       IN  /\ ifd' = [last |-> sent, pre |-> pre, post |-> post,
                      open |-> ifd.open
                                 + (IF RayStart \in Range(sent) THEN 1 ELSE 0)
                                 - (IF RayEnd \in Range(sent) THEN 1 ELSE 0),
                      errors |-> ifd.errors + (IF call.error THEN 1 ELSE 0)]
           /\ render' = [render EXCEPT
                             !.written = @ + 1,
                             !.pc = IF render.written + 1 = Len(render.calls)
                                    THEN "done" ELSE "writing"]
    /\ UNCHANGED notExpand

ExpandIdle ==
    /\ render = NoRender
    /\ ifd = NoIfd

\* An AOV was constructed and nothing is written yet.
ExpandInit ==
    /\ defaultComponents = <<>>
    /\ \E data \in ExpandInputs : \E out \in NewAOV(data) :
          /\ aov = out.data
          /\ aovCall = [op |-> "__init__", input |-> data, err |-> out.err]
    /\ ExpandIdle

ExpandNext ==
    \/ \E lights \in LightLists, plist \in Plists, order \in CategoryOrders \cup {<<>>} :
          BeginWriteToIfd(lights, plist, order)
    \/ \E pre, post \in BOOLEAN : WriteDataToIfd(pre, post)

\* ------------------------------------------------------------------------
\* Claims about AOV.writeToIfd
\* ------------------------------------------------------------------------

\* The channel writeToIfd starts from: the channel of the AOV or, when that
\* is None, its variable.
BaseChannel == IF aov.channel = PyNone THEN aov.variable ELSE aov.channel

\* The channel the _lightExportPlanes call that made this writeDataToIfd
\* call was given: the base channel, with the component when there is one.
StepChannel(call) ==
    IF "component" \in DOMAIN call.data
    THEN BaseChannel \o S("_") \o call.data["component"]
    ELSE BaseChannel

\* The writeDataToIfd calls made so far, and those of one step.
Written == {i \in 1..render.written : TRUE}
CallsOfStep(step) == {i \in DOMAIN render.calls : render.calls[i].step = step}

\* The light has an export prefix that is empty and no or an empty suffix.
EmptyPrefixAndSuffix(light) ==
    /\ light.vm_export_prefix = <<>>
    /\ light.vm_export_suffix \in {PyNone, <<>>}

\* C7: in per-light export, for a matched light whose export prefix and
\* export suffix are both empty the error is reported and one write op is
\* still made for the light, its channel exactly the base channel.
C7_EmptySuffixReported ==
    (aov.lightexport = S("per-light") /\ render.pc = "done") =>
        \A step \in 1..render.steps : \A light \in Range(render.lights) :
            EmptyPrefixAndSuffix(light) =>
                \E i \in CallsOfStep(step) :
                    /\ \A j \in CallsOfStep(step) :
                           render.calls[j].data["lightexport"] = light.name <=> j = i
                    /\ render.calls[i].error
                    /\ render.calls[i].data["channel"] = StepChannel(render.calls[i])

\* C8: with lightexport "single" every _lightExportPlanes call makes exactly
\* one write op; its lightexport is the names of the matched lights joined
\* by single spaces in host order, "__nolights__" when no light matched and
\* never the empty string, and that is the lightexport sent to the IFD.
C8_SingleLightExport ==
    aov.lightexport = S("single") =>
        LET lightNames == [i \in DOMAIN render.lights |-> render.lights[i].name]
            expected == IF render.lights = <<>> THEN S("__nolights__")
                        ELSE Join(lightNames, S(" "))
        IN  /\ render.pc # "idle" =>
                   \A step \in 1..render.steps : Cardinality(CallsOfStep(step)) = 1
            /\ \A i \in Written :
                   /\ render.calls[i].data["lightexport"] = expected
                   /\ render.calls[i].data["lightexport"] # <<>>
            /\ ifd.last # <<>> =>
                   /\ RayProperty("lightexport", expected) \in Range(ifd.last)
                   /\ \A sent \in Range(ifd.last) :
                          sent.name = "lightexport" => sent.value = expected

\* C8's case: component export of two components with lightexport "single"
\* and no light matched; both write ops are made and the last one was sent
\* to the IFD.
C8_Witness ==
    /\ aov.lightexport = S("single")
    /\ render.pc = "done"
    /\ render.listed
    /\ render.lights = <<>>
    /\ render.steps = 2
    /\ render.written = 2
    /\ RayProperty("lightexport", S("__nolights__")) \in Range(ifd.last)

\* The words of string: its maximal runs of atoms that are not whitespace,
\* in order.
WordsOf(string) ==
    LET isWord(i) == i \in DOMAIN string /\ string[i] \notin Whitespace
        starts == {i \in DOMAIN string : isWord(i) /\ ~isWord(i - 1)}
        start(k) == CHOOSE i \in starts : Cardinality({j \in starts : j <= i}) = k
        end(i) == CHOOSE j \in i..Len(string) :
                      /\ \A m \in i..j : isWord(m)
                      /\ ~isWord(j + 1)
    IN  [k \in 1..Cardinality(starts) |-> SubSeq(string, start(k), end(start(k)))]

\* C9: with componentexport true and no components of its own, the AOV is
\* written for the words c1..cn of the host's component string: with
\* lightexport None, n write ops in that order, the i-th with channel
\* "{base}_{ci}" and component ci, base the channel of the AOV or its variable
\* when the channel is None.  With components of its own these are used, one
\* step each in order, and cam.wrangle is not called.
C9_ComponentExport ==
    (Truthy(aov.componentexport) /\ render.pc # "idle") =>
        LET own == Components(aov)
            words == WordsOf(render.plist.value)
            isFor(call, component) ==
                /\ call.data["component"] = component
                /\ call.data["channel"] = BaseChannel \o S("_") \o component
        IN  /\ (own = <<>> /\ render.plist.ok /\ aov.lightexport = PyNone) =>
                   /\ render.wrangled
                   /\ Len(render.calls) = Len(words)
                   /\ \A i \in DOMAIN render.calls : isFor(render.calls[i], words[i])
            /\ own # <<>> =>
                   /\ ~render.wrangled
                   /\ render.steps = Len(own)
                   /\ \A i \in DOMAIN render.calls :
                          render.calls[i].data["component"] = own[render.calls[i].step]
                   /\ aov.lightexport = PyNone =>
                          /\ Len(render.calls) = Len(own)
                          /\ \A i \in DOMAIN render.calls : isFor(render.calls[i], own[i])

\* C9's case: no components and no channel on the AOV, the host's string has
\* two words between leading, doubled and trailing spaces, and both write ops
\* are made.
C9_Witness ==
    /\ Truthy(aov.componentexport)
    /\ Components(aov) = <<>>
    /\ aov.channel = PyNone
    /\ aov.lightexport = PyNone
    /\ render.plist = Plist(<<" ", "R", " ", " ", "G", " ">>)
    /\ render.pc = "done"
    /\ render.written = 2
    /\ render.calls[2].data["channel"] = <<"Cf", "_", "G">>

\* The last writeDataToIfd call made, and the calls of IFDapi it made that
\* set a property.
LastCall == render.calls[render.written]
PropertiesSent == SelectSeq(ifd.last, LAMBDA sent : sent.call = "ray_property")

\* C12 as stated: when the pre_defplane or the post_defplane hook of a write
\* op returns true, no property of the plane reaches IFDapi.
C12_Original ==
    (render.written > 0 /\ (ifd.pre \/ ifd.post)) => PropertiesSent = <<>>

\* C12: when the pre_defplane hook of a write op returns true nothing is
\* sent to IFDapi, and the post_defplane hook is not called.  When the
\* post_defplane hook returns true, ray_start and the properties of the plane
\* (variable, vextype and channel first, with the values of the op) were
\* sent already and only ray_end is not sent.
C12_HookCancels ==
    render.written > 0 =>
        /\ ifd.pre => ifd.last = <<>> /\ ~ifd.post
        /\ ~ifd.pre =>
               /\ Head(ifd.last) = RayStart
               /\ Len(PropertiesSent) >= 3
               /\ \A i \in 1..3 :
                      LET name == <<"variable", "vextype", "channel">>[i]
                      IN  PropertiesSent[i] = RayProperty(name, LastCall.data[name])
               /\ ifd.post =>
                      /\ RayEnd \notin Range(ifd.last)
                      /\ ifd.last = <<RayStart>> \o PropertiesSent
               /\ ~ifd.post => ifd.last = <<RayStart>> \o PropertiesSent \o <<RayEnd>>

\* C12's case: the post_defplane hook of a write op returned true; the
\* properties were sent and ray_end was not.
C12_Witness ==
    /\ render.written > 0
    /\ ifd.post
    /\ Len(PropertiesSent) >= 3
    /\ RayEnd \notin Range(ifd.last)

\* The names of the properties a write op sends, in order.
NamesSent == [i \in DOMAIN PropertiesSent |-> PropertiesSent[i].name]

\* The fixed order of the properties.
PropertyOrder ==
    <<"variable", "vextype", "channel", "quantize", "planefile", "lightexport",
      "pfilter", "sfilter", "component">>

\* Whether the property is set on the AOV as the last write op expands it:
\* lightexport and component are set by the expansion, the others are fields
\* of the AOV.
IsSetOnExpanded(name) ==
    CASE name \in {"variable", "vextype", "channel"} -> TRUE
      [] name \in {"lightexport", "component"} -> name \in DOMAIN LastCall.data
      [] OTHER -> aov[name] # PyNone

\* C13: a write op that no hook cancels sends its properties in the order
\* variable, vextype, channel, quantize, planefile, lightexport, pfilter,
\* sfilter, component, the first three always and each of the others exactly
\* when it is set on the expanded AOV; so an AOV whose planefile is set sends
\* a planefile property.
C13_PropertyOrder ==
    (render.written > 0 /\ ~ifd.pre /\ ~ifd.post) =>
        NamesSent = SelectSeq(PropertyOrder, IsSetOnExpanded)

\* The same without planefile: the other properties are sent as C13 says.
PropertiesButPlanefileInOrder ==
    (render.written > 0 /\ ~ifd.pre /\ ~ifd.post) =>
        NamesSent = SelectSeq(PropertyOrder,
                              LAMBDA name : name # "planefile" /\ IsSetOnExpanded(name))

\* The tags of a light: the words of its categories between commas and
\* spaces, "__none__" when there is none, nothing when the light has no
\* categories parameter.
TagsOf(light) ==
    IF light.categories = PyNone THEN <<>>
    ELSE LET words == WordsOf(Replace(light.categories, ",", " "))
         IN  IF words = <<>> THEN <<S("__none__")>> ELSE words

\* The light names in host order, each once per tag of the light that is
\* category.
RECURSIVE MembersOf(_, _)
MembersOf(category, lights) ==
    IF lights = <<>> THEN <<>>
    ELSE LET light == Head(lights)
             times == SelectSeq(TagsOf(light), LAMBDA tag : tag = category)
         IN  [i \in DOMAIN times |-> light.name] \o MembersOf(category, Tail(lights))

\* The name of the light occurs in the lightexport of the call.
Exports(call, light) ==
    \E i \in 1..(Len(call.data["lightexport"]) - Len(light.name) + 1) :
        SubSeq(call.data["lightexport"], i, i + Len(light.name) - 1) = light.name

\* C14 as stated, its first part: in per-category export every matched light
\* is in the lightexport of at least one write op.
C14_Original ==
    (aov.lightexport = S("per-category") /\ render.pc = "done" /\ render.listed) =>
        \A light \in Range(render.lights) :
            \E i \in DOMAIN render.calls : Exports(render.calls[i], light)

\* C14: in per-category export the matched lights that have a categories
\* parameter are grouped by tag: a light whose categories are blank is in
\* "__none__", a light with several comma- or space-separated tags is in each
\* of them, and a light without the parameter is in no write op.  Each
\* _lightExportPlanes call makes exactly one write op per category, with
\* channel "{category}_{base channel}" and lightexport the names of the
\* members joined by single spaces, in host order.
C14_PerCategory ==
    aov.lightexport = S("per-category") =>
        LET tags == [light \in Range(render.lights) |-> Range(TagsOf(light))]
            categories == UNION {tags[light] : light \in Range(render.lights)}
            members == [category \in categories |->
                           Join(MembersOf(category, render.lights), S(" "))]
            isFor(call, category) ==
                /\ call.data["channel"] = category \o S("_") \o StepChannel(call)
                /\ call.data["lightexport"] = members[category]
        IN  /\ render.written > 0 =>
                   /\ \E category \in categories : isFor(LastCall, category)
                   /\ \A light \in Range(render.lights) :
                          /\ light.categories = PyNone => ~Exports(LastCall, light)
                          /\ Exports(LastCall, light)
                                 <=> \E category \in tags[light] :
                                        isFor(LastCall, category)
            /\ render.pc = "done" =>
                   \A step \in 1..render.steps :
                       /\ Cardinality(CallsOfStep(step)) = Cardinality(categories)
                       /\ \A category \in categories :
                              \E i \in CallsOfStep(step) :
                                  isFor(render.calls[i], category)

\* C14's case: of the two matched lights one has several tags, one of them
\* twice, and the other has no categories parameter; the write ops of the two
\* categories are made.
C14_Witness ==
    /\ aov.lightexport = S("per-category")
    /\ render.pc = "done"
    /\ render.written >= 2
    /\ Len(render.lights) = 2
    /\ \E light \in Range(render.lights) : light.categories = PyNone
    /\ \E light \in Range(render.lights) :
          /\ Cardinality(Range(TagsOf(light))) = 2
          /\ Len(TagsOf(light)) = 3

\* The export prefix and suffix of a light: the values of its parameters, the
\* name of the light without its first "/" and with "_" for "/" when it has
\* no prefix parameter, and "" when it has no suffix parameter.
ExportPrefix(light) ==
    IF light.vm_export_prefix = PyNone
    THEN Replace(Tail(light.name), "/", "_")
    ELSE light.vm_export_prefix

ExportSuffix(light) ==
    IF light.vm_export_suffix = PyNone THEN <<>> ELSE light.vm_export_suffix

\* C15: in per-light export every _lightExportPlanes call makes one write op
\* per matched light, in host order, with lightexport the name of the light;
\* its channel is "{prefix}_{base channel}{suffix}" when the export prefix
\* of the light is not empty and otherwise "{base channel}{suffix}" when its
\* export suffix is not empty, the base channel being that of the call for
\* each light.
C15_PerLight ==
    (aov.lightexport = S("per-light") /\ render.pc = "done") =>
        LET n == Len(render.lights) IN
        /\ Len(render.calls) = render.steps * n
        /\ \A step \in 1..render.steps : \A k \in 1..n :
               LET call == render.calls[(step - 1) * n + k]
                   light == render.lights[k]
                   base == StepChannel(call)
               IN  /\ call.step = step
                   /\ call.data["lightexport"] = light.name
                   /\ ExportPrefix(light) # <<>> =>
                          call.data["channel"]
                              = ExportPrefix(light) \o S("_") \o base \o ExportSuffix(light)
                   /\ (ExportPrefix(light) = <<>> /\ ExportSuffix(light) # <<>>) =>
                          call.data["channel"] = base \o ExportSuffix(light)

\* The same for the lights whose prefix is not empty, and for every light
\* the lightexport and the place of its write op.
PerLightWithPrefix ==
    (aov.lightexport = S("per-light") /\ render.pc # "idle") =>
        LET n == Len(render.lights) IN
        /\ Len(render.calls) = render.steps * n
        /\ \A step \in 1..render.steps : \A k \in 1..n :
               LET call == render.calls[(step - 1) * n + k]
                   light == render.lights[k]
               IN  /\ call.step = step
                   /\ call.data["lightexport"] = light.name
                   /\ ExportPrefix(light) # <<>> =>
                          call.data["channel"]
                              = ExportPrefix(light) \o S("_") \o StepChannel(call)
                                    \o ExportSuffix(light)

\* C19: ray_start and ray_end are balanced: whatever the hooks return, after
\* every write op, so before the next one begins and when writeToIfd returns,
\* no plane block is open.
C19_BlocksBalanced ==
    render.pc \in {"writing", "done"} => ifd.open = 0

\* What is seen of an AOV: its fields, with the items of its components, and
\* its getData().
AOVView(d) ==
    [fields |-> [name \in DOMAIN d |->
                    IF name = "components" THEN Components(d) ELSE d[name]],
     data |-> GetData(d)]

\* C20: AOV instances are independent: a step that changes a field of one
\* AOV, or adds a component in place to the list its components property
\* returns, leaves the fields and getData() of every other AOV as they were,
\* and the components an AOV constructed afterwards starts with empty.
C20_Independent ==
    [][/\ \A i, j \in DOMAIN pool :
              (i # j /\ AOVView(pool[i])' # AOVView(pool[i]))
                  => AOVView(pool[j])' = AOVView(pool[j])
       /\ Components(DefaultAOVData)' = <<>>]_vars

\* ------------------------------------------------------------------------
\* Specifications: one per class, the objects of the others left alone
\* ------------------------------------------------------------------------

ColorIdle ==
    /\ hashOrder = <<>>
    /\ constants = EmptyDict
    /\ names = EmptyDict
    /\ nodes = EmptyDict
    /\ tools = EmptyDict
    /\ loaded = [op |-> "none", files |-> <<>>, err |-> "none", stale |-> FALSE]
    /\ lastCall = NoCall

ColorSpecInit == ColorInit /\ AOVIdle /\ GroupIdle /\ ExpandIdle
ColorSpec == ColorSpecInit /\ [][ColorNext]_vars

AOVSpecInit == AOVInit /\ ColorIdle /\ GroupIdle /\ ExpandIdle
AOVSpec == AOVSpecInit /\ [][AOVNext]_vars

GroupSpecInit == GroupInit /\ ColorIdle /\ AOVIdle /\ ExpandIdle
GroupSpec == GroupSpecInit /\ [][GroupNext]_vars

ExpandSpecInit == ExpandInit /\ ColorIdle /\ GroupIdle
ExpandSpec == ExpandSpecInit /\ [][ExpandNext]_vars

====
